---- MODULE Spec2Model ----
(***************************************************************************)
(* Route-construction state machine of the tour puzzle (hook useGameState) *)
(*                                                                         *)
(* The hook keeps its state in React state cells.  A handler is a closure  *)
(* over the values of the last render; what it writes goes through         *)
(* setState and becomes visible only at the next render.  The model keeps  *)
(* both: the variables named after the state cells hold the RENDERED       *)
(* values (what every closure reads and what the hook returns), and        *)
(* "pending" holds the values the queued updates produce at the next       *)
(* render.  Functional updaters (prev => ...) are applied to "pending",    *)
(* plain values overwrite it.                                              *)
(*                                                                         *)
(* Discrete events (tap, Undo, Reset) are flushed by React before the next *)
(* event: their action contains the render and the run of the effects.     *)
(* What the effects write is queued again; the render that shows it is a   *)
(* step of its own (RenderQueued) that comes before any other event.       *)
(* Continuous events (pointer moves of a drag) are rendered by a scheduled *)
(* task; another move may be delivered first.  Their action only queues,   *)
(* and RenderQueued is the scheduled render.                               *)
(*                                                                         *)
(* Spec explores the route state machine on one fixed layout of the nodes. *)
(* ScoreSpec explores every layout and stored optimum within the bounds,   *)
(* with taps only, for the properties of the saved score records.          *)
(***************************************************************************)
EXTENDS Integers, Sequences, FiniteSets, TLC

\* ---------------------------------------------------------------- bounds
MaxHouses == 2      \* largest number of houses of a loadable puzzle
MaxLen == 4         \* longest route the model lets a handler build
MaxQueued == 1      \* most drag moves delivered between two renders
MaxScores == 2      \* most score records saved in one run
MaxCoord == 3       \* largest x coordinate of a node
MaxOpt == 8         \* largest optimal_distance stored in a puzzle file
MaxFetches == 1     \* most loadSolution calls in flight at once
MaxTimers == 2      \* most animate timers armed at once
MaxDay == 4         \* latest puzzle date, in days
MaxSaves == 3       \* most saveScore calls made on a store in one run
MaxRadius == 3      \* largest clickRadius handed to findNodeAt
MaxLoads == 2       \* most loadPuzzle calls in flight at once

VARIABLES
  puzzleData,             \* [loaded, houses]: the active puzzle
  route,                  \* rendered route: sequence of nodes
  visitedHouses,          \* rendered set of visited house ids
  gameComplete,           \* rendered completion flag
  showReminder,           \* rendered reminder flag
  attempts,               \* rendered attempt counter
  currentAttemptStarted,  \* rendered attempt-started flag
  pending,                \* state the queued updates produce at next render
  queued,                 \* number of handler calls queued since last render
  reminderTimeout,        \* TRUE while the 2s reminder timer is armed
  scores,                 \* records handed to saveScore, oldest first
  phase,                  \* progress through start/complete/undo/complete
  trail,                  \* visits not yet undone, counted from an empty route
  layout,                 \* node coordinates and optimal_distance of the puzzle
  difficulty,             \* the difficulty prop of the hook
  showingSolution,        \* rendered: the solution is on show
  solutionRoute,          \* rendered: [loaded, route], the solution on show
  solutionAnimationIndex, \* rendered playback index
  solutionFetches,        \* loadSolution calls in flight: what each will return
  solutionTimers,         \* armed animate timers: route length in their closure
  solutionAnimationFrameRef, \* position in solutionTimers the ref names, or 0
  isDragging,             \* rendered isDragging cell of the canvas
  touchDragStateRef,      \* [isDragging, dragStartNode, hasMoved]
  lastVisitedNodeRef,     \* node the pointer was over at the last intent
  gesture,                \* the last pointer event and the call it made
  allScores,              \* localStorage 'tsp-scores': key -> records
  statistics,             \* localStorage 'tsp-statistics': the streak fields
  loads,                  \* loadPuzzle calls in flight: what each was asked
  activeFor,              \* the selection the active puzzle was loaded for
  hit                     \* the last hit test: its inputs and its result

vars == <<puzzleData, route, visitedHouses, gameComplete, showReminder,
          attempts, currentAttemptStarted, pending, queued, reminderTimeout,
          scores, phase, trail, layout, difficulty, showingSolution,
          solutionRoute, solutionAnimationIndex, solutionFetches,
          solutionTimers, solutionAnimationFrameRef, isDragging,
          touchDragStateRef, lastVisitedNodeRef, gesture, allScores,
          statistics, loads, activeFor, hit>>

\* the puzzle, the route state machine and what it saved
gameVars == <<puzzleData, route, visitedHouses, gameComplete, showReminder,
              attempts, currentAttemptStarted, pending, queued,
              reminderTimeout, scores, phase, trail, layout>>

\* the cells, requests and timers of the solution playback
playbackVars == <<difficulty, showingSolution, solutionRoute,
                  solutionAnimationIndex, solutionFetches, solutionTimers,
                  solutionAnimationFrameRef>>

\* the state of the canvas component
canvasVars == <<isDragging, touchDragStateRef, lastVisitedNodeRef, gesture>>

\* the score store, the loads in flight and the hit test: what the
\* specifications of the hook and of the canvas leave alone
storeVars == <<allScores, statistics>>
loadVars == <<loads, activeFor>>
restVars == <<storeVars, loadVars, hit>>

\* what an action of the hook leaves alone
aroundHook == <<canvasVars, restVars>>

\* ----------------------------------------------------------------- nodes
NorthPole == [type |-> "north_pole", id |-> 0]
House(i) == [type |-> "house", id |-> i]
NoNode == [type |-> "none", id |-> 0]

NoPuzzle == [loaded |-> FALSE, houses |-> {}]
Puzzle(n) == [loaded |-> TRUE, houses |-> 1..n]

Nodes(p) == {NorthPole} \cup {House(i) : i \in p.houses}

\* canvasUtils.isSameNode: the depot of a puzzle has one position, so two
\* depot nodes compare equal on x and y; houses compare on id.
isSameNode(node1, node2) ==
  IF node1.type # node2.type THEN FALSE
  ELSE IF node1.type = "north_pole" THEN node1.id = node2.id
  ELSE IF node1.type = "house" THEN node1.id = node2.id
  ELSE FALSE

\* the fromNode guard of handleNodeClick
\* variant (seeded fault): the hint is compared by type only
fromNodeMismatch_TypeOnly(fromNode, lastNode) ==
  fromNode.type # lastNode.type

fromNodeMismatch(fromNode, lastNode) ==
  \/ fromNode.type # lastNode.type
  \/ fromNode.type = "house" /\ fromNode.id # lastNode.id
  \/ fromNode.type = "north_pole" /\ fromNode.id # lastNode.id

Last(s) == s[Len(s)]
Front(s) == SubSeq(s, 1, Len(s) - 1)

\* the state cells as one record
Rendered ==
  [route |-> route, visitedHouses |-> visitedHouses,
   gameComplete |-> gameComplete, showReminder |-> showReminder,
   attempts |-> attempts, currentAttemptStarted |-> currentAttemptStarted]

EmptyState ==
  [route |-> <<>>, visitedHouses |-> {}, gameComplete |-> FALSE,
   showReminder |-> FALSE, attempts |-> 0, currentAttemptStarted |-> FALSE]

\* ------------------------------------------------------- handleNodeClick
\* variant (seeded fault): the popped house stays in visitedHouses
popLast_KeepVisited(q) ==
  IF Len(q.route) = 0 THEN q ELSE [q EXCEPT !.route = Front(@)]

\* the updater shared by both retreat branches and by undoLastMove:
\* prev => { newRoute = [...prev]; removed = newRoute.pop(); ... }
popLast(q) ==
  IF Len(q.route) = 0 THEN q
  ELSE LET removedNode == Last(q.route) IN
       [q EXCEPT !.route = Front(@),
                 !.visitedHouses = IF removedNode.type = "house"
                                   THEN @ \ {removedNode.id} ELSE @]

\* variant (seeded fault): a retreat clears the flags but pops nothing
retreat_NoPop(q) ==
  [q EXCEPT !.gameComplete = FALSE, !.showReminder = FALSE]

\* a retreat branch: pop, setGameComplete(false), setShowReminder(false)
retreat(q) ==
  [popLast(q) EXCEPT !.gameComplete = FALSE, !.showReminder = FALSE]

\* variant (seeded fault): the depot closes any route that has left the depot
canClose_AnyTime(s, p) == Len(s.route) > 1

\* the two conditions under which a depot target is appended
canClose(s, p) ==
  \/ Len(s.route) > 1 /\ Cardinality(s.visitedHouses) = Cardinality(p.houses)
  \/ /\ Len(s.route) > 0
     /\ Last(s.route).type # "north_pole"
     /\ Cardinality(s.visitedHouses) = Cardinality(p.houses)

closeTour(q) ==
  [q EXCEPT !.route = Append(@, NorthPole), !.showReminder = FALSE]

\* the house branch: open the route with [depot, house] or append the house
visitHouse(s, q, target) ==
  IF Len(s.route) = 0
  THEN [q EXCEPT !.route = <<NorthPole, House(target.id)>>,
                 !.visitedHouses = @ \cup {target.id},
                 !.currentAttemptStarted = TRUE]
  ELSE [q EXCEPT !.route = Append(@, House(target.id)),
                 !.visitedHouses = @ \cup {target.id},
                 !.currentAttemptStarted =
                     IF ~s.currentAttemptStarted THEN TRUE ELSE @]

\* variant (seeded fault): the house branch does not look at visitedHouses
visitNode_NoVisitedCheck(s, q, p, target) ==
  IF target.type = "none" THEN q
  ELSE IF target.type = "north_pole"
  THEN IF Len(s.route) = 0 THEN q
       ELSE IF canClose(s, p) THEN closeTour(q) ELSE q
  ELSE visitHouse(s, q, target)

\* the part of handleNodeClick after the retreat branches
visitNode(s, q, p, target) ==
  IF target.type = "none" THEN q
  ELSE IF target.type = "north_pole"
  THEN IF Len(s.route) = 0 THEN q
       ELSE IF canClose(s, p) THEN closeTour(q) ELSE q
  ELSE IF target.id \in s.visitedHouses THEN q
       ELSE visitHouse(s, q, target)

\* handleNodeClick(x, y, fromNode): s is what the closure reads, q is what
\* the updaters are applied to, target is the node the hit test finds.
handleNodeClick(s, q, p, target, fromNode) ==
  IF ~p.loaded THEN q
  ELSE IF fromNode.type # "none"
  THEN IF /\ target.type # "none"
          /\ Len(s.route) > 0
          /\ fromNodeMismatch(fromNode, Last(s.route))
       THEN q
       ELSE visitNode(s, q, p, target)
  ELSE IF target.type = "house" /\ target.id \in s.visitedHouses THEN q
  ELSE IF target.type # "none" /\ Len(s.route) > 0
  THEN IF isSameNode(target, Last(s.route)) THEN retreat(q)
       ELSE IF Len(s.route) > 1 /\ isSameNode(target, s.route[Len(s.route) - 1])
       THEN retreat(q)
       ELSE visitNode(s, q, p, target)
  ELSE visitNode(s, q, p, target)

\* ----------------------------------------------------------- undoLastMove
\* newRouteLength is assigned inside the setRoute updater and read right
\* after setRoute returns.  React runs the updater at once only when the
\* component has no other update pending (eager = TRUE); otherwise it runs
\* at the next render and the read sees the initial 0.
newRouteLengthRead(q, eager) ==
  IF eager THEN Len(popLast(q).route) ELSE 0

\* variant (seeded fault): setGameComplete(false) left out
undoLastMove_StaysComplete(s, q, eager) ==
  IF Len(s.route) = 0 THEN q
  ELSE [popLast(q) EXCEPT !.showReminder = FALSE]

undoLastMove(s, q, eager) ==
  IF Len(s.route) = 0 THEN q
  ELSE LET q1 == popLast(q)
           q2 == IF Len(q1.route) <= 1
                 THEN [q1 EXCEPT !.currentAttemptStarted = FALSE] ELSE q1
           q3 == IF s.gameComplete
                 THEN [q2 EXCEPT !.currentAttemptStarted =
                                    newRouteLengthRead(q, eager) > 1]
                 ELSE q2
       IN [q3 EXCEPT !.gameComplete = FALSE, !.showReminder = FALSE]

\* ------------------------------------------------------------- resetRoute
\* variant (seeded fault): the reset also clears the attempt counter
resetRoute_ClearsAttempts(q) ==
  [q EXCEPT !.route = <<>>, !.visitedHouses = {}, !.gameComplete = FALSE,
            !.showReminder = FALSE, !.currentAttemptStarted = FALSE,
            !.attempts = 0]

resetRoute(q) ==
  [q EXCEPT !.route = <<>>, !.visitedHouses = {}, !.gameComplete = FALSE,
            !.showReminder = FALSE, !.currentAttemptStarted = FALSE]

\* ------------------------------------------------------ checkWinCondition
houseIdsInRoute(r) ==
  SelectSeq(r, LAMBDA node : node.type = "house")

uniqueHouseIds(r) ==
  {houseIdsInRoute(r)[i].id : i \in 1..Len(houseIdsInRoute(r))}

\* the outer conditions: both ends are the depot and the visited count is full
winShape(s, p) ==
  /\ Len(s.route) >= 2
  /\ p.loaded
  /\ s.route[1].type = "north_pole"
  /\ Last(s.route).type = "north_pole"
  /\ Cardinality(s.visitedHouses) = Cardinality(p.houses)

\* variant (seeded fault): the structural re-validation left out
winValid_Skipped(s, p) == TRUE

\* the structural re-validation: every house exactly once
winValid(s, p) ==
  /\ Cardinality(uniqueHouseIds(s.route)) = Cardinality(p.houses)
  /\ Len(houseIdsInRoute(s.route)) = Cardinality(p.houses)

\* Math.sqrt((p2.x - p1.x) ** 2 + (p2.y - p1.y) ** 2): the length of the
\* leg between two nodes, kept in the layout as a table over the node
\* numbers (0 the depot, i house i)
nodeIndex(node) == IF node.type = "house" THEN node.id ELSE 0

legLength(p1, p2) == layout.leg[nodeIndex(p1)][nodeIndex(p2)]

\* calculateDistance: the sum of the lengths of the route's legs
RECURSIVE calculateDistance(_)
calculateDistance(r) ==
  IF Len(r) < 2 THEN 0
  ELSE calculateDistance(Front(r)) + legLength(r[Len(r) - 1], r[Len(r)])

\* efficiency strings are modelled by their value in hundredths of a
\* percent: "100.00%" is 10000
FullEfficiency == 10000

\* variant (seeded fault): the ratio taken upside down, without the cap
efficiencyValue_Inverted(optimal, currentDist) ==
  (2 * currentDist * FullEfficiency + optimal) \div (2 * optimal)

\* Math.min((optimal / currentDist) * 100, 100).toFixed(2) + '%';
\* toFixed rounds to the nearest hundredth, a tie upwards
efficiencyValue(optimal, currentDist) ==
  LET h == (2 * optimal * FullEfficiency + currentDist) \div (2 * currentDist)
  IN IF h > FullEfficiency THEN FullEfficiency ELSE h

\* variant (seeded fault): a better route keeps the stored optimum
betterThanStored_Never(currentDist) == FALSE

\* currentDist < puzzleData.optimal_distance
betterThanStored(currentDist) == currentDist < layout.optimal_distance

\* the record handed to saveScore
scoreRecord(s, p) ==
  LET finalAttempts == s.attempts + (IF s.currentAttemptStarted THEN 1 ELSE 0)
      currentDist == calculateDistance(s.route)
  IN [houses |-> Cardinality(p.houses),
      difficulty |-> difficulty,
      attempts |-> IF finalAttempts > 0 THEN finalAttempts ELSE 1,
      distance |-> currentDist,
      optimalDistance |-> IF betterThanStored(currentDist) THEN currentDist
                          ELSE layout.optimal_distance,
      efficiency |-> IF betterThanStored(currentDist) THEN FullEfficiency
                     ELSE efficiencyValue(layout.optimal_distance,
                                          currentDist)]

\* variant (seeded fault): the effect saves on every run that finds a win
savedBy_EveryRun(s, p) ==
  IF winShape(s, p) /\ winValid(s, p) THEN <<scoreRecord(s, p)>> ELSE <<>>

\* the records the effect saves when it runs on the rendered state s
savedBy(s, p) ==
  IF winShape(s, p) /\ winValid(s, p) /\ ~s.gameComplete
  THEN <<scoreRecord(s, p)>> ELSE <<>>

\* the state after the updates the effect queues have been rendered
checkWinCondition(s, p) ==
  IF ~(winShape(s, p) /\ winValid(s, p)) THEN s
  ELSE LET s1 == IF ~s.gameComplete /\ s.currentAttemptStarted
                 THEN [s EXCEPT !.attempts = @ + 1,
                                !.currentAttemptStarted = FALSE]
                 ELSE s
       IN [s1 EXCEPT !.gameComplete = TRUE]

\* -------------------------------------------------------- reminder effect
reminderDue(s, p) ==
  /\ p.loaded
  /\ Cardinality(s.visitedHouses) = Cardinality(p.houses)
  /\ Len(s.route) > 1
  /\ Last(s.route).type # "north_pole"
  /\ ~s.gameComplete

\* the effect re-runs when route, visitedHouses, gameComplete or puzzleData
\* changed; its cleanup clears the timer that was armed before.
reminderEffect(s, p) ==
  IF reminderDue(s, p) THEN s ELSE [s EXCEPT !.showReminder = FALSE]

\* ----------------------------------------------------------------- render
\* what the effects that run after a render of q leave queued: the updates
\* of checkWinCondition and the setShowReminder(false) of the reminder effect
renderAll(q, p) == reminderEffect(checkWinCondition(q, p), p)

\* One render and the effects that follow it.  The render shows q; the
\* effects run on q at once (saveScore is called there) and what they set
\* is queued for one more render.
Commit(q, p) ==
  /\ route' = q.route
  /\ visitedHouses' = q.visitedHouses
  /\ gameComplete' = q.gameComplete
  /\ showReminder' = q.showReminder
  /\ attempts' = q.attempts
  /\ currentAttemptStarted' = q.currentAttemptStarted
  /\ pending' = renderAll(q, p)
  /\ queued' = 0
  /\ reminderTimeout' = reminderDue(q, p)
  /\ scores' = scores \o savedBy(q, p)
  /\ layout' = layout

\* the updates of the effects are queued and no move is: React renders them
\* in its next task, before the next input event is handled
EffectsPending == queued = 0 /\ pending # Rendered

\* --------------------------------------------------- the scenario counter
\* 0 puzzle just loaded, 1 route started, 2 completed, 3 undone after the
\* completion, 4 completed again, 9 anything else happened
advance(ph, wasComplete, r) ==
  IF r.gameComplete /\ ~wasComplete
  THEN IF ph \in {0, 1} THEN 2 ELSE IF ph = 3 THEN 4 ELSE 9
  ELSE IF ph \in {0, 1} /\ ~r.gameComplete THEN 1
  ELSE IF ph = 3 /\ ~r.gameComplete THEN 3
  ELSE 9

\* the visit/undo counter: mode "visit" while only visits were made since the
\* route was empty, "undo" while they are being taken back, "off" otherwise;
\* n is the number of visits made minus the number taken back.  An intent
\* counts only when it is applied to a rendered state (before == TRUE).
Trail(mode, n) == [mode |-> mode, n |-> n]

visited(tr, before) ==
  IF before /\ tr.mode = "visit" THEN Trail("visit", tr.n + 1)
  ELSE Trail("off", 0)

undone(tr, before) ==
  IF before /\ tr.mode \in {"visit", "undo"} /\ tr.n >= 1
  THEN Trail("undo", tr.n - 1)
  ELSE Trail("off", 0)

withinBounds(q, p) ==
  /\ Len(q.route) <= MaxLen
  /\ Len(scores) + Len(savedBy(q, p)) <= MaxScores

\* ---------------------------------------------------------------- layouts
\* every node has its own place on the line; the houses are numbered from
\* left to right (the code treats all house ids alike), the depot lies
\* anywhere between or beside them
Placed(f) ==
  /\ \A a, b \in DOMAIN f : f[a] = f[b] => a = b
  /\ \A a, b \in 1..MaxHouses : a < b => f[a] < f[b]

\* the legs of nodes that lie on one line (y = 0) at the x coordinates f:
\* the square root is then exactly |dx|
OnLine(f) ==
  [a \in DOMAIN f |->
     [b \in DOMAIN f |-> IF f[a] < f[b] THEN f[b] - f[a] ELSE f[a] - f[b]]]

Layouts ==
  {[leg |-> OnLine(f), optimal_distance |-> o] :
     f \in {g \in [0..MaxHouses -> 0..MaxCoord] : Placed(g)},
     o \in 1..MaxOpt}

\* the layout of the runs that do not look at distances: every leg has
\* length 1 (depot and two houses at the corners of a triangle with equal
\* sides), so that a route's distance is the number of its legs; the stored
\* optimum is the length of the tour over all houses
DefaultLayout ==
  [leg |-> [a \in 0..MaxHouses |->
              [b \in 0..MaxHouses |-> IF a = b THEN 0 ELSE 1]],
   optimal_distance |-> MaxHouses + 1]

\* ------------------------------------------------------ solution playback
Difficulties == {"easy", "medium", "hard"}

NoSolution == [loaded |-> FALSE, route |-> <<>>]

\* the solution file of a puzzle: the tour over its houses, depot to depot
solutionOf(p) ==
  LET n == Cardinality(p.houses) IN
  [loaded |-> TRUE,
   route |-> [i \in 1..(n + 2) |->
                IF i = 1 \/ i = n + 2 THEN NorthPole ELSE House(i - 1)]]

\* toggleSolution returns before any fetch on the hardest tier
solutionAvailable_Always(d) == TRUE

solutionAvailable(d) == d # "hard"

\* what loadForDate sets in the game cells once loadPuzzle has resolved
loadForDate_KeepsRoute(q) ==
  [EmptyState EXCEPT !.route = q.route, !.visitedHouses = q.visitedHouses]

loadForDate(q) == EmptyState

\* the solution cells as a record
SolutionCells ==
  [showingSolution |-> showingSolution,
   solutionRoute |-> solutionRoute,
   solutionAnimationIndex |-> solutionAnimationIndex]

\* setShowingSolution(false); setSolutionRoute(null);
\* setSolutionAnimationIndex(0)
hidden ==
  [showingSolution |-> FALSE,
   solutionRoute |-> NoSolution,
   solutionAnimationIndex |-> 0]

\* handleNodeClick and undoLastMove call no setter of the solution cells
solutionAfterIntent_Hides(c) == hidden

solutionAfterIntent(c) == c

setSolution(c) ==
  /\ showingSolution' = c.showingSolution
  /\ solutionRoute' = c.solutionRoute
  /\ solutionAnimationIndex' = c.solutionAnimationIndex

\* a sequence without its k-th element
without(seq, k) == SubSeq(seq, 1, k - 1) \o SubSeq(seq, k + 1, Len(seq))

\* clearTimeout(solutionAnimationFrameRef.current); the ref becomes null
clearSolutionTimer ==
  /\ solutionTimers' = IF solutionAnimationFrameRef = 0 THEN solutionTimers
                       ELSE without(solutionTimers, solutionAnimationFrameRef)
  /\ solutionAnimationFrameRef' = 0

\* the updater of animate: the index it returns ...
animateIndex(prev, len) ==
  IF prev + 1 >= len - 1 THEN len - 1 ELSE prev + 1

\* ... and whether it arms the next timer
animateRearms(prev, len) == ~(prev + 1 >= len - 1)

\* ------------------------------------------------- the pointer decoder
\* touchDragStateRef when no touch is being followed
IdleTouch == [isDragging |-> FALSE, dragStartNode |-> NoNode, hasMoved |-> FALSE]

NoGesture ==
  [down |-> FALSE, event |-> "none", start |-> NoNode, still |-> FALSE,
   before |-> 0, node |-> NoNode, called |-> FALSE, target |-> NoNode,
   fromNode |-> NoNode]

\* the tail of the route the handlers of the canvas read (stateRef, props)
routeTail == IF Len(route) > 0 THEN Last(route) ELSE NoNode

isVisitedHouse(node) == node.type = "house" /\ node.id \in visitedHouses

\* touchStartHandler, handleMouseDown: the press calls onNodeClick(x, y)
\* unless it is on no node, on a visited house or on the depot of an empty
\* route
pressCalls(node) ==
  /\ node # NoNode
  /\ ~isVisitedHouse(node)
  /\ ~(node.type = "north_pole" /\ Len(route) = 0)

\* touchMoveHandler, handleMouseMove: the move calls onNodeClick when ...
moveCalls_AnyNode(node) == node # NoNode

moveCalls(node) ==
  /\ node # NoNode
  /\ ~isSameNode(node, lastVisitedNodeRef)
  /\ ~isVisitedHouse(node)
  /\ ~(Len(route) > 0 /\ isSameNode(node, Last(route)))

\* ... and passes the tail of the route, if there is one, as fromNode
moveFrom == routeTail

\* touchEndHandler: the release calls onNodeClick(x, y) when no move came
releaseCalls(node, hasMoved) == ~hasMoved /\ node # NoNode

\* the release passes the coordinates of the node under the release point
releaseTarget(start, node) == node

\* the fromNode the release passes: none
releaseFrom_Start(start) == start

releaseFrom(start) == NoNode

\* one pointer event: whether the pointer is down after it, the node that
\* was under the press of its touch, whether the pointer has stayed where
\* it was pressed and the length the rendered route had at that press, the
\* node under the pointer,
\* and the onNodeClick call the handler made, if it made one: the node whose
\* coordinates it passed and the fromNode it passed
Gesture(down, event, node, called, target, fromNode) ==
  [down |-> down, event |-> event,
   start |-> IF event = "touchstart" THEN node
             ELSE IF event \in {"touchmove", "touchend"} THEN gesture.start
             ELSE NoNode,
   still |-> IF event \in {"touchstart", "mousedown"} THEN TRUE
             ELSE IF event \in {"touchend", "mouseup", "click"}
             THEN gesture.still
             ELSE FALSE,
   before |-> IF event \in {"touchstart", "mousedown"} THEN Len(route)
              ELSE IF event \in {"touchend", "mouseup", "click"}
              THEN gesture.before
              ELSE 0,
   node |-> node, called |-> called,
   target |-> IF called THEN target ELSE NoNode,
   fromNode |-> IF called THEN fromNode ELSE NoNode]

\* ------------------------------------------- store, loads and hit test
\* no score was saved yet: getAllScores() returns {} and getStatistics()
\* the default statistics
NoDate == 0
EmptyStore == [key \in {} |-> <<>>]
DefaultStats ==
  [currentStreak |-> 0, bestStreak |-> 0, lastCompletedDate |-> NoDate]

\* no load is in flight and no puzzle was loaded
NoSelection == "none"

\* no hit test was made
NoHit == [tested |-> FALSE]

restInit ==
  /\ allScores = EmptyStore
  /\ statistics = DefaultStats
  /\ loads = <<>>
  /\ activeFor = NoSelection
  /\ hit = NoHit

\* ------------------------------------------------------------------- Init
Init ==
  /\ puzzleData = NoPuzzle
  /\ route = <<>>
  /\ visitedHouses = {}
  /\ gameComplete = FALSE
  /\ showReminder = FALSE
  /\ attempts = 0
  /\ currentAttemptStarted = FALSE
  /\ pending = EmptyState
  /\ queued = 0
  /\ reminderTimeout = FALSE
  /\ scores = <<>>
  /\ phase = 9
  /\ trail = Trail("visit", 0)
  /\ layout = DefaultLayout
  /\ difficulty = "medium"
  /\ showingSolution = FALSE
  /\ solutionRoute = NoSolution
  /\ solutionAnimationIndex = 0
  /\ solutionFetches = <<>>
  /\ solutionTimers = <<>>
  /\ solutionAnimationFrameRef = 0
  /\ isDragging = FALSE
  /\ touchDragStateRef = IdleTouch
  /\ lastVisitedNodeRef = NoNode
  /\ gesture = NoGesture
  /\ restInit

\* an intent the handler rejected: no setState was called, nothing renders
Rejected == UNCHANGED gameVars

solutionCellVars == <<showingSolution, solutionRoute, solutionAnimationIndex>>

\* loadForDate resolved: the puzzle and every state cell are set together;
\* the timers of the playback are left as they are
LoadPuzzle(n) ==
  /\ ~EffectsPending
  /\ puzzleData' = Puzzle(n)
  /\ Commit(loadForDate(pending), Puzzle(n))
  /\ phase' = 0
  /\ trail' = Trail("visit", 0)
  /\ setSolution(hidden)
  /\ UNCHANGED <<difficulty, solutionFetches, solutionTimers,
                 solutionAnimationFrameRef>>

\* loadForDate threw: only setPuzzleData(null)
LoadFailed ==
  /\ ~EffectsPending
  /\ puzzleData.loaded
  /\ puzzleData' = NoPuzzle
  /\ Commit(pending, NoPuzzle)
  /\ phase' = 9
  /\ trail' = Trail("off", 0)
  /\ UNCHANGED playbackVars

\* handleNodeClick(x, y) from a discrete event, rendered before the next event
Tap(target) ==
  LET q == handleNodeClick(Rendered, pending, puzzleData, target, NoNode) IN
  IF q = pending THEN Rejected /\ UNCHANGED playbackVars
  ELSE /\ ~EffectsPending
       /\ withinBounds(q, puzzleData)
       /\ Commit(q, puzzleData)
       /\ phase' = IF Len(q.route) < Len(pending.route) THEN 9
                   ELSE advance(phase, pending.gameComplete,
                                renderAll(q, puzzleData))
       /\ trail' = IF Len(q.route) < Len(pending.route)
                   THEN undone(trail, pending = Rendered)
                   ELSE visited(trail, pending = Rendered)
       /\ setSolution(solutionAfterIntent(SolutionCells))
       /\ UNCHANGED <<puzzleData, difficulty, solutionFetches, solutionTimers,
                      solutionAnimationFrameRef>>

\* handleNodeClick(x, y, fromNode) from a pointer move: queued, not rendered
Drag(target, fromNode) ==
  LET q == handleNodeClick(Rendered, pending, puzzleData, target, fromNode) IN
  IF q = pending THEN Rejected /\ UNCHANGED playbackVars
  ELSE /\ ~EffectsPending
       /\ queued < MaxQueued
       /\ Len(q.route) <= MaxLen
       /\ pending' = q
       /\ queued' = queued + 1
       /\ phase' = IF phase \in {0, 1, 3} THEN phase ELSE 9
       /\ trail' = visited(trail, pending = Rendered)
       /\ UNCHANGED <<puzzleData, route, visitedHouses, gameComplete,
                      showReminder, attempts, currentAttemptStarted,
                      reminderTimeout, scores, layout>>
       /\ UNCHANGED playbackVars

\* the scheduled render of the queued moves, with the effects that follow
RenderQueued ==
  /\ pending # Rendered
  /\ withinBounds(pending, puzzleData)
  /\ Commit(pending, puzzleData)
  /\ phase' = IF queued = 0 THEN phase
              ELSE advance(phase, pending.gameComplete,
                           renderAll(pending, puzzleData))
  /\ UNCHANGED <<puzzleData, trail>>
  /\ UNCHANGED playbackVars

\* the Undo button
Undo(eager) ==
  LET q == undoLastMove(Rendered, pending, eager) IN
  IF Len(route) = 0 THEN Rejected /\ UNCHANGED playbackVars
  ELSE /\ ~EffectsPending
       /\ eager => queued = 0
       /\ withinBounds(q, puzzleData)
       /\ Commit(q, puzzleData)
       /\ phase' = IF phase = 2 THEN 3 ELSE 9
       /\ trail' = undone(trail, pending = Rendered)
       /\ setSolution(solutionAfterIntent(SolutionCells))
       /\ UNCHANGED <<puzzleData, difficulty, solutionFetches, solutionTimers,
                      solutionAnimationFrameRef>>

\* the Reset button: the route, the solution cells and the timer of the ref
Reset ==
  /\ ~EffectsPending
  /\ Commit(resetRoute(pending), puzzleData)
  /\ phase' = 9
  /\ trail' = Trail("visit", 0)
  /\ setSolution(hidden)
  /\ clearSolutionTimer
  /\ UNCHANGED <<puzzleData, difficulty, solutionFetches>>

\* the 2s reminder timer fires: its closure saw the reminder condition hold
ReminderFires ==
  /\ ~EffectsPending
  /\ reminderTimeout
  /\ LET q == [pending EXCEPT !.showReminder = TRUE] IN
     IF queued = 0
     THEN /\ showReminder' = TRUE
          /\ pending' = q
          /\ reminderTimeout' = FALSE
          /\ UNCHANGED <<route, visitedHouses, gameComplete, attempts,
                         currentAttemptStarted, queued, scores, phase,
                         layout>>
     ELSE /\ withinBounds(q, puzzleData)
          /\ Commit(q, puzzleData)
          /\ phase' = advance(phase, pending.gameComplete,
                              renderAll(q, puzzleData))
  /\ UNCHANGED <<puzzleData, trail>>
  /\ UNCHANGED playbackVars

Targets == Nodes(puzzleData) \cup {NoNode}

Next ==
  \/ \E n \in 1..MaxHouses : LoadPuzzle(n) /\ UNCHANGED aroundHook
  \/ LoadFailed /\ UNCHANGED aroundHook
  \/ \E target \in Targets : Tap(target) /\ UNCHANGED aroundHook
  \/ \E target \in Targets, fromNode \in Nodes(puzzleData) :
        Drag(target, fromNode) /\ UNCHANGED aroundHook
  \/ RenderQueued /\ UNCHANGED aroundHook
  \/ \E eager \in BOOLEAN : Undo(eager) /\ UNCHANGED aroundHook
  \/ Reset /\ UNCHANGED aroundHook
  \/ ReminderFires /\ UNCHANGED aroundHook

Spec == Init /\ [][Next]_vars

\* --------------------------------------------- the playback of the solution
\* the difficulty prop changes; the load it starts resolves as LoadPuzzle
SwitchDifficulty(d) ==
  /\ d # difficulty
  /\ difficulty' = d
  /\ UNCHANGED <<showingSolution, solutionRoute, solutionAnimationIndex,
                 solutionFetches, solutionTimers, solutionAnimationFrameRef>>
  /\ UNCHANGED gameVars

\* toggleSolution up to its await: refused, hides, or starts a fetch
ToggleSolution ==
  /\ ~EffectsPending
  /\ IF ~puzzleData.loaded \/ ~solutionAvailable(difficulty)
     THEN UNCHANGED playbackVars
     ELSE IF showingSolution
     THEN /\ setSolution(hidden)
          /\ clearSolutionTimer
          /\ UNCHANGED <<difficulty, solutionFetches>>
     ELSE /\ Len(solutionFetches) < MaxFetches
          /\ solutionFetches' = Append(solutionFetches, solutionOf(puzzleData))
          /\ UNCHANGED <<difficulty, showingSolution, solutionRoute,
                         solutionAnimationIndex, solutionTimers,
                         solutionAnimationFrameRef>>
  /\ UNCHANGED gameVars

\* toggleSolution after its await: the solution is shown from index 0 and
\* the first animate timer is armed; the ref now names that timer
SolutionLoaded(k) ==
  /\ ~EffectsPending
  /\ Len(solutionTimers) < MaxTimers
  /\ LET solution == solutionFetches[k] IN
     /\ setSolution([showingSolution |-> TRUE, solutionRoute |-> solution,
                     solutionAnimationIndex |-> 0])
     /\ solutionTimers' = Append(solutionTimers, Len(solution.route))
     /\ solutionAnimationFrameRef' = Len(solutionTimers) + 1
  /\ solutionFetches' = without(solutionFetches, k)
  /\ UNCHANGED difficulty
  /\ UNCHANGED gameVars

\* loadSolution threw: an alert, no state is set
SolutionFailed(k) ==
  /\ solutionFetches' = without(solutionFetches, k)
  /\ UNCHANGED <<difficulty, showingSolution, solutionRoute,
                 solutionAnimationIndex, solutionTimers,
                 solutionAnimationFrameRef>>
  /\ UNCHANGED gameVars

\* the k-th armed timer fires: animate runs its updater on the index; a
\* timer it arms takes the place of the fired one and the ref names it,
\* otherwise a ref that named the fired timer is stale
Tick(k) ==
  /\ ~EffectsPending
  /\ LET len == solutionTimers[k]
         rest == without(solutionTimers, k)
     IN /\ solutionAnimationIndex' = animateIndex(solutionAnimationIndex, len)
        /\ IF animateRearms(solutionAnimationIndex, len)
           THEN /\ solutionTimers' = solutionTimers
                /\ solutionAnimationFrameRef' = k
           ELSE /\ solutionTimers' = rest
                /\ solutionAnimationFrameRef' =
                     IF solutionAnimationFrameRef = k THEN 0
                     ELSE IF solutionAnimationFrameRef > k
                     THEN solutionAnimationFrameRef - 1
                     ELSE solutionAnimationFrameRef
  /\ UNCHANGED <<difficulty, showingSolution, solutionRoute, solutionFetches>>
  /\ UNCHANGED gameVars

PlaybackNext ==
  \/ \E n \in 1..MaxHouses : LoadPuzzle(n) /\ UNCHANGED aroundHook
  \/ LoadFailed /\ UNCHANGED aroundHook
  \/ Reset /\ UNCHANGED aroundHook
  \/ \E d \in Difficulties : SwitchDifficulty(d) /\ UNCHANGED aroundHook
  \/ ToggleSolution /\ UNCHANGED aroundHook
  \/ \E k \in 1..Len(solutionFetches) : SolutionLoaded(k) /\ UNCHANGED aroundHook
  \/ \E k \in 1..Len(solutionFetches) : SolutionFailed(k) /\ UNCHANGED aroundHook
  \/ \E k \in 1..Len(solutionTimers) : Tick(k) /\ UNCHANGED aroundHook

PlaybackSpec == Init /\ [][PlaybackNext]_vars

\* A puzzle played while its solution is on show: the runs start where
\* toggleSolution has just shown the solution of the loaded puzzle and armed
\* its first timer; no other solution is asked for.
ShownInit ==
  /\ puzzleData \in {Puzzle(n) : n \in 1..MaxHouses}
  /\ route = <<>>
  /\ visitedHouses = {}
  /\ gameComplete = FALSE
  /\ showReminder = FALSE
  /\ attempts = 0
  /\ currentAttemptStarted = FALSE
  /\ pending = EmptyState
  /\ queued = 0
  /\ reminderTimeout = FALSE
  /\ scores = <<>>
  /\ phase = 0
  /\ trail = Trail("visit", 0)
  /\ layout = DefaultLayout
  /\ difficulty = "medium"
  /\ showingSolution = TRUE
  /\ solutionRoute = solutionOf(puzzleData)
  /\ solutionAnimationIndex = 0
  /\ solutionFetches = <<>>
  /\ solutionTimers = <<Len(solutionRoute.route)>>
  /\ solutionAnimationFrameRef = 1
  /\ isDragging = FALSE
  /\ touchDragStateRef = IdleTouch
  /\ lastVisitedNodeRef = NoNode
  /\ gesture = NoGesture
  /\ restInit

ShownNext ==
  \/ \E n \in 1..MaxHouses : LoadPuzzle(n) /\ UNCHANGED aroundHook
  \/ \E target \in Targets : Tap(target) /\ UNCHANGED aroundHook
  \/ RenderQueued /\ UNCHANGED aroundHook
  \/ \E eager \in BOOLEAN : Undo(eager) /\ UNCHANGED aroundHook
  \/ Reset /\ UNCHANGED aroundHook
  \/ \E k \in 1..Len(solutionTimers) : Tick(k) /\ UNCHANGED aroundHook

ShownSpec == ShownInit /\ [][ShownNext]_vars

\* ------------------------------------------------ the events of the canvas
\* The handlers of the canvas: what they write in the component and the
\* onNodeClick call they make, which "gesture" records.
touchStartHandler(node) ==
  /\ ~gesture.down
  /\ IF ~puzzleData.loaded \/ gameComplete
     THEN /\ gesture' = Gesture(TRUE, "touchstart", node, FALSE, NoNode, NoNode)
          /\ UNCHANGED <<isDragging, touchDragStateRef, lastVisitedNodeRef>>
     ELSE /\ isDragging' = TRUE
          /\ lastVisitedNodeRef' = node
          /\ touchDragStateRef' = [isDragging |-> TRUE, dragStartNode |-> node,
                                   hasMoved |-> FALSE]
          /\ gesture' = Gesture(TRUE, "touchstart", node, pressCalls(node),
                                node, NoNode)

touchMoveHandler(node) ==
  /\ gesture.down
  /\ gesture.event \in {"touchstart", "touchmove"}
  /\ UNCHANGED isDragging
  /\ IF ~touchDragStateRef.isDragging
     THEN /\ gesture' = Gesture(TRUE, "touchmove", node, FALSE, NoNode, NoNode)
          /\ UNCHANGED <<touchDragStateRef, lastVisitedNodeRef>>
     ELSE /\ touchDragStateRef' = [touchDragStateRef EXCEPT !.hasMoved = TRUE]
          /\ IF puzzleData.loaded /\ moveCalls(node)
             THEN /\ lastVisitedNodeRef' = node
                  /\ gesture' = Gesture(TRUE, "touchmove", node, TRUE, node,
                                        moveFrom)
             ELSE /\ UNCHANGED lastVisitedNodeRef
                  /\ gesture' = Gesture(TRUE, "touchmove", node, FALSE,
                                        NoNode, NoNode)

touchEndHandler(node) ==
  /\ gesture.down
  /\ gesture.event \in {"touchstart", "touchmove"}
  /\ IF ~puzzleData.loaded \/ gameComplete
     THEN /\ gesture' = Gesture(FALSE, "touchend", node, FALSE, NoNode, NoNode)
          /\ UNCHANGED <<isDragging, touchDragStateRef, lastVisitedNodeRef>>
     ELSE /\ isDragging' = FALSE
          /\ lastVisitedNodeRef' = NoNode
          /\ touchDragStateRef' = IdleTouch
          /\ gesture' = Gesture(FALSE, "touchend", node,
                                releaseCalls(node, touchDragStateRef.hasMoved),
                                releaseTarget(touchDragStateRef.dragStartNode,
                                              node),
                                releaseFrom(touchDragStateRef.dragStartNode))

handleMouseDown(node) ==
  /\ ~gesture.down
  /\ puzzleData.loaded
  /\ UNCHANGED touchDragStateRef
  /\ IF gameComplete
     THEN /\ gesture' = Gesture(TRUE, "mousedown", node, FALSE, NoNode, NoNode)
          /\ UNCHANGED <<isDragging, lastVisitedNodeRef>>
     ELSE /\ isDragging' = TRUE
          /\ lastVisitedNodeRef' = node
          /\ gesture' = Gesture(TRUE, "mousedown", node, pressCalls(node),
                                node, NoNode)

handleMouseMove(node) ==
  /\ gesture.down
  /\ gesture.event \in {"mousedown", "mousemove"}
  /\ UNCHANGED <<isDragging, touchDragStateRef>>
  /\ IF isDragging /\ puzzleData.loaded /\ moveCalls(node)
     THEN /\ lastVisitedNodeRef' = node
          /\ gesture' = Gesture(TRUE, "mousemove", node, TRUE, node, moveFrom)
     ELSE /\ UNCHANGED lastVisitedNodeRef
          /\ gesture' = Gesture(TRUE, "mousemove", node, FALSE, NoNode, NoNode)

handleMouseUp ==
  /\ gesture.down
  /\ gesture.event \in {"mousedown", "mousemove"}
  /\ isDragging' = FALSE
  /\ lastVisitedNodeRef' = NoNode
  /\ gesture' = Gesture(FALSE, "mouseup", NoNode, FALSE, NoNode, NoNode)
  /\ UNCHANGED touchDragStateRef

\* the click that follows a mouse release: onNodeClick(coords.x, coords.y)
\* unless the rendered isDragging or gameComplete is true; the hook finds
\* the node under those coordinates itself
clickCalls_Always == TRUE

clickCalls == ~isDragging /\ ~gameComplete

handleClick(node) ==
  /\ ~gesture.down
  /\ gesture.event = "mouseup"
  /\ puzzleData.loaded
  /\ UNCHANGED <<isDragging, touchDragStateRef, lastVisitedNodeRef>>
  /\ gesture' = Gesture(FALSE, "click", node, clickCalls, node, NoNode)

\* onNodeClick is handleNodeClick of the hook: a press or a release is a
\* discrete event, a move is a continuous one
discreteCall(g) ==
  IF g.called THEN Tap(g.target) ELSE Rejected /\ UNCHANGED playbackVars

continuousCall(g) ==
  IF g.called THEN Drag(g.target, g.fromNode)
  ELSE Rejected /\ UNCHANGED playbackVars

TouchStart(node) == touchStartHandler(node) /\ discreteCall(gesture')
TouchMove(node) == touchMoveHandler(node) /\ continuousCall(gesture')
TouchEnd(node) == touchEndHandler(node) /\ discreteCall(gesture')
MouseDown(node) == handleMouseDown(node) /\ discreteCall(gesture')
MouseMove(node) == handleMouseMove(node) /\ continuousCall(gesture')
MouseUp == handleMouseUp /\ Rejected /\ UNCHANGED playbackVars
MouseClick(node) == handleClick(node) /\ discreteCall(gesture')

CanvasNext ==
  \/ \E n \in 1..MaxHouses : LoadPuzzle(n) /\ UNCHANGED aroundHook
  \/ \E node \in Targets : TouchStart(node) /\ UNCHANGED restVars
  \/ \E node \in Targets : TouchMove(node) /\ UNCHANGED restVars
  \/ \E node \in Targets : TouchEnd(node) /\ UNCHANGED restVars
  \/ \E node \in Targets : MouseDown(node) /\ UNCHANGED restVars
  \/ \E node \in Targets : MouseMove(node) /\ UNCHANGED restVars
  \/ MouseUp /\ UNCHANGED restVars
  \/ \E node \in Targets : MouseClick(node) /\ UNCHANGED restVars
  \/ RenderQueued /\ UNCHANGED aroundHook

CanvasSpec == Init /\ [][CanvasNext]_vars

\* The canvas on its own, as its tests mount it: the props are fixed and
\* onNodeClick is a stub.  The props are those of a game played by taps.
RECURSIVE Played(_, _)
Played(p, k) ==
  IF k = 0 THEN {EmptyState}
  ELSE LET before == Played(p, k - 1) IN
       before \cup
       {renderAll(handleNodeClick(s, s, p, target, NoNode), p) :
          s \in before, target \in Nodes(p)}

stubCall == UNCHANGED <<gameVars, playbackVars, restVars>>

DecoderInit ==
  /\ puzzleData \in {Puzzle(n) : n \in 1..MaxHouses}
  /\ \E s \in Played(puzzleData, MaxLen) :
       /\ Len(s.route) <= MaxLen
       /\ route = s.route
       /\ visitedHouses = s.visitedHouses
       /\ gameComplete = s.gameComplete
       /\ showReminder = s.showReminder
       /\ attempts = s.attempts
       /\ currentAttemptStarted = s.currentAttemptStarted
       /\ pending = s
  /\ queued = 0
  /\ reminderTimeout = FALSE
  /\ scores = <<>>
  /\ phase = 9
  /\ trail = Trail("off", 0)
  /\ layout = DefaultLayout
  /\ difficulty = "medium"
  /\ showingSolution = FALSE
  /\ solutionRoute = NoSolution
  /\ solutionAnimationIndex = 0
  /\ solutionFetches = <<>>
  /\ solutionTimers = <<>>
  /\ solutionAnimationFrameRef = 0
  /\ isDragging = FALSE
  /\ touchDragStateRef = IdleTouch
  /\ lastVisitedNodeRef = NoNode
  /\ gesture = NoGesture
  /\ restInit

DecoderNext ==
  \/ \E node \in Targets : touchStartHandler(node) /\ stubCall
  \/ \E node \in Targets : touchMoveHandler(node) /\ stubCall
  \/ \E node \in Targets : touchEndHandler(node) /\ stubCall
  \/ \E node \in Targets : handleMouseDown(node) /\ stubCall
  \/ \E node \in Targets : handleMouseMove(node) /\ stubCall
  \/ handleMouseUp /\ stubCall
  \/ \E node \in Targets : handleClick(node) /\ stubCall

DecoderSpec == DecoderInit /\ [][DecoderNext]_vars

\* The canvas at the end of a game: the props are those of a game in which
\* every house is visited, and the parent renders the canvas again, in the
\* middle of a touch or a drag too, when the route is closed or reopened.
Endgames(p) ==
  {s \in Played(p, MaxLen) :
     Len(s.route) <= MaxLen /\ s.visitedHouses = p.houses}

EndgamesOf == [n \in 1..MaxHouses |-> Endgames(Puzzle(n))]

\* the parent renders the canvas with the props of the state s of the
\* game; the refs and the isDragging cell of the canvas are kept
Rerender(s) ==
  /\ s # Rendered
  /\ route' = s.route
  /\ visitedHouses' = s.visitedHouses
  /\ gameComplete' = s.gameComplete
  /\ showReminder' = s.showReminder
  /\ attempts' = s.attempts
  /\ currentAttemptStarted' = s.currentAttemptStarted
  /\ pending' = s
  /\ UNCHANGED <<puzzleData, queued, reminderTimeout, scores, phase, trail,
                 layout>>
  /\ UNCHANGED playbackVars
  /\ UNCHANGED aroundHook

EndgameInit ==
  /\ DecoderInit
  /\ visitedHouses = puzzleData.houses

EndgameNext ==
  \/ DecoderNext
  \/ \E s \in EndgamesOf[Cardinality(puzzleData.houses)] : Rerender(s)

EndgameSpec == EndgameInit /\ [][EndgameNext]_vars

\* ------------------------------------------------- the scoring of routes
\* Puzzles of every layout, played by taps alone: each intent is rendered
\* before the next, so every saved record is the score of a route built
\* node by node.
ScoreInit ==
  /\ puzzleData = NoPuzzle
  /\ route = <<>>
  /\ visitedHouses = {}
  /\ gameComplete = FALSE
  /\ showReminder = FALSE
  /\ attempts = 0
  /\ currentAttemptStarted = FALSE
  /\ pending = EmptyState
  /\ queued = 0
  /\ reminderTimeout = FALSE
  /\ scores = <<>>
  /\ phase = 9
  /\ trail = Trail("visit", 0)
  /\ layout \in Layouts
  /\ difficulty = "medium"
  /\ showingSolution = FALSE
  /\ solutionRoute = NoSolution
  /\ solutionAnimationIndex = 0
  /\ solutionFetches = <<>>
  /\ solutionTimers = <<>>
  /\ solutionAnimationFrameRef = 0
  /\ isDragging = FALSE
  /\ touchDragStateRef = IdleTouch
  /\ lastVisitedNodeRef = NoNode
  /\ gesture = NoGesture
  /\ restInit

ScoreNext ==
  \/ \E n \in 1..MaxHouses : LoadPuzzle(n) /\ UNCHANGED aroundHook
  \/ \E target \in Targets : Tap(target) /\ UNCHANGED aroundHook
  \/ RenderQueued /\ UNCHANGED aroundHook

ScoreSpec == ScoreInit /\ [][ScoreNext]_vars

\* ------------------------------------------------------ loads in flight
\* The selection is the difficulty prop (a change of selectedDate runs the
\* same effect).  Every change starts a loadForDate; none is cancelled, and
\* each sets the puzzle when its loadPuzzle resolves.
Select(d) ==
  /\ Len(loads) < MaxLoads
  /\ SwitchDifficulty(d)
  /\ loads' = Append(loads, d)
  /\ UNCHANGED <<activeFor, storeVars, hit, canvasVars>>

\* the k-th loadPuzzle in flight resolves with a puzzle of n houses
LoadResolved(k, n) ==
  /\ LoadPuzzle(n)
  /\ loads' = without(loads, k)
  /\ activeFor' = loads[k]
  /\ UNCHANGED <<storeVars, hit, canvasVars>>

\* the k-th loadPuzzle in flight throws
LoadRejected(k) ==
  /\ IF puzzleData.loaded THEN LoadFailed
     ELSE UNCHANGED <<gameVars, playbackVars>>
  /\ loads' = without(loads, k)
  /\ activeFor' = NoSelection
  /\ UNCHANGED <<storeVars, hit, canvasVars>>

\* the hook is mounted: the effect has started the first loadForDate
LoadInit ==
  /\ puzzleData = NoPuzzle
  /\ route = <<>>
  /\ visitedHouses = {}
  /\ gameComplete = FALSE
  /\ showReminder = FALSE
  /\ attempts = 0
  /\ currentAttemptStarted = FALSE
  /\ pending = EmptyState
  /\ queued = 0
  /\ reminderTimeout = FALSE
  /\ scores = <<>>
  /\ phase = 9
  /\ trail = Trail("visit", 0)
  /\ layout = DefaultLayout
  /\ difficulty = "medium"
  /\ showingSolution = FALSE
  /\ solutionRoute = NoSolution
  /\ solutionAnimationIndex = 0
  /\ solutionFetches = <<>>
  /\ solutionTimers = <<>>
  /\ solutionAnimationFrameRef = 0
  /\ isDragging = FALSE
  /\ touchDragStateRef = IdleTouch
  /\ lastVisitedNodeRef = NoNode
  /\ gesture = NoGesture
  /\ allScores = EmptyStore
  /\ statistics = DefaultStats
  /\ loads = <<difficulty>>
  /\ activeFor = NoSelection
  /\ hit = NoHit

LoadNext ==
  \/ \E d \in Difficulties : Select(d)
  \/ \E k \in 1..Len(loads), n \in 1..MaxHouses : LoadResolved(k, n)
  \/ \E k \in 1..Len(loads) : LoadRejected(k)
  \/ \E target \in Targets : Tap(target) /\ UNCHANGED aroundHook
  \/ RenderQueued /\ UNCHANGED aroundHook

LoadSpec == LoadInit /\ [][LoadNext]_vars

\* ------------------------------------------------------------ hit testing
\* findNodeAt on its own: the nodes lie on the line y = 0 at the x
\* coordinates f (f[0] the depot, f[i] house i, the houses in the order of
\* puzzleData.houses), the point tested lies on that line at x.
distTo(f, x, i) == IF f[i] < x THEN x - f[i] ELSE f[i] - x

nodeOf(i) == IF i = 0 THEN NorthPole ELSE House(i)

\* the first house of the array within the radius, from house i on
RECURSIVE firstHouseWithin(_, _, _, _)
firstHouseWithin(f, x, clickRadius, i) ==
  IF i > MaxHouses THEN NoNode
  ELSE IF distTo(f, x, i) < clickRadius THEN House(i)
  ELSE firstHouseWithin(f, x, clickRadius, i + 1)

findNodeAt(f, x, clickRadius) ==
  IF distTo(f, x, 0) < clickRadius THEN NorthPole
  ELSE firstHouseWithin(f, x, clickRadius, 1)

HitTest(f, x, clickRadius) ==
  /\ hit' = [tested |-> TRUE, at |-> f, x |-> x, clickRadius |-> clickRadius,
             found |-> findNodeAt(f, x, clickRadius)]
  /\ UNCHANGED <<gameVars, playbackVars, canvasVars, storeVars, loadVars>>

HitNext ==
  \E f \in {g \in [0..MaxHouses -> 0..MaxCoord] : Placed(g)},
     x \in 0..MaxCoord, clickRadius \in 1..MaxRadius :
    HitTest(f, x, clickRadius)

HitSpec == Init /\ [][HitNext]_vars

\* ---------------------------------------------------------- the score store
\* scoreStorage on its own: saveScore is called with records of any date
\* and efficiency, on a store that is empty or that already holds the
\* records of KeepLast saves of one puzzle.  Dates are counted in days
\* (new Date("YYYY-MM-DD") is midnight UTC of that day); "scores" lists
\* every record handed to saveScore, oldest first.
KeepLast == 50

Dates == 1..MaxDay
Effs == {FullEfficiency \div 2, FullEfficiency}

\* `${date}_${difficulty}`
Key(date, d) == [date |-> date, difficulty |-> d]

\* { ...scoreData, timestamp, date, difficulty }
storedRecord(date, d, efficiency, timestamp) ==
  [date |-> date, difficulty |-> d, efficiency |-> efficiency,
   timestamp |-> timestamp]

\* getBestScore returns null
NoRecord == storedRecord(NoDate, "none", 0, 0)

getPuzzleScores(store, key) ==
  IF key \in DOMAIN store THEN store[key] ELSE <<>>

\* scores.reduce((best, current) => current > best ? current : best), from
\* the i-th record on
RECURSIVE reduceBest(_, _, _)
reduceBest(recs, i, best) ==
  IF i > Len(recs) THEN best
  ELSE reduceBest(recs, i + 1,
                  IF recs[i].efficiency > best.efficiency THEN recs[i]
                  ELSE best)

getBestScore(store, key) ==
  LET recs == getPuzzleScores(store, key) IN
  IF Len(recs) = 0 THEN NoRecord ELSE reduceBest(recs, 2, recs[1])

\* if (length > 50) slice(-50)
keepLast(recs) ==
  IF Len(recs) > KeepLast
  THEN SubSeq(recs, Len(recs) - KeepLast + 1, Len(recs))
  ELSE recs

\* allScores[key].push(scoreWithTimestamp), cut to the last records
pushed(store, key, rec) ==
  [k \in DOMAIN store \cup {key} |->
     IF k = key THEN keepLast(Append(getPuzzleScores(store, key), rec))
     ELSE store[k]]

\* Math.floor(Math.abs(d2 - d1) / (1000 * 60 * 60 * 24))
daysDifference(date1, date2) ==
  IF date1 > date2 THEN date1 - date2 ELSE date2 - date1

\* variant (seeded fault): a gap of any length continues the streak
streakAfterGap_Continues(stats) == stats.currentStreak + 1

\* the streak after a completion more than one day after the last one
streakAfterGap(stats) == 1

\* the streak part of updateStatistics
updateStreak(stats, completedDate) ==
  IF stats.lastCompletedDate # NoDate
  THEN IF completedDate = stats.lastCompletedDate THEN stats
       ELSE LET daysDiff == daysDifference(completedDate,
                                           stats.lastCompletedDate)
                isAfter == completedDate > stats.lastCompletedDate
            IN IF isAfter /\ daysDiff = 1
               THEN [stats EXCEPT !.currentStreak = @ + 1,
                                  !.lastCompletedDate = completedDate]
               ELSE IF isAfter /\ daysDiff > 1
               THEN [stats EXCEPT !.currentStreak = streakAfterGap(stats),
                                  !.lastCompletedDate = completedDate]
               ELSE stats
  ELSE [stats EXCEPT !.currentStreak = 1,
                     !.lastCompletedDate = completedDate]

updateStatistics(stats, completedDate) ==
  LET st == updateStreak(stats, completedDate) IN
  IF st.currentStreak > st.bestStreak
  THEN [st EXCEPT !.bestStreak = st.currentStreak] ELSE st

\* the store after KeepLast saves for the date 1: the first record has the
\* efficiency "first", the others the efficiency "rest"
Filled(first, rest) ==
  [i \in 1..KeepLast |->
     storedRecord(1, difficulty, IF i = 1 THEN first ELSE rest, i)]

\* the saves made in this run
savesMade ==
  IF Len(scores) >= KeepLast THEN Len(scores) - KeepLast ELSE Len(scores)

\* saveScore(date, difficulty, { efficiency, timestamp: Date.now() })
SaveScore(date, efficiency) ==
  /\ savesMade < MaxSaves
  /\ LET rec == storedRecord(date, difficulty, efficiency, Len(scores) + 1)
     IN /\ allScores' = pushed(allScores, Key(date, difficulty), rec)
        /\ scores' = Append(scores, rec)
  /\ statistics' = updateStatistics(statistics, date)
  /\ UNCHANGED <<puzzleData, route, visitedHouses, gameComplete,
                 showReminder, attempts, currentAttemptStarted, pending,
                 queued, reminderTimeout, phase, trail, layout>>
  /\ UNCHANGED <<playbackVars, canvasVars, loadVars, hit>>

StoreInit ==
  /\ puzzleData = NoPuzzle
  /\ route = <<>>
  /\ visitedHouses = {}
  /\ gameComplete = FALSE
  /\ showReminder = FALSE
  /\ attempts = 0
  /\ currentAttemptStarted = FALSE
  /\ pending = EmptyState
  /\ queued = 0
  /\ reminderTimeout = FALSE
  /\ phase = 9
  /\ trail = Trail("off", 0)
  /\ layout = DefaultLayout
  /\ difficulty = "medium"
  /\ showingSolution = FALSE
  /\ solutionRoute = NoSolution
  /\ solutionAnimationIndex = 0
  /\ solutionFetches = <<>>
  /\ solutionTimers = <<>>
  /\ solutionAnimationFrameRef = 0
  /\ isDragging = FALSE
  /\ touchDragStateRef = IdleTouch
  /\ lastVisitedNodeRef = NoNode
  /\ gesture = NoGesture
  /\ loads = <<>>
  /\ activeFor = NoSelection
  /\ hit = NoHit
  /\ \/ /\ scores = <<>>
        /\ allScores = EmptyStore
        /\ statistics = DefaultStats
     \/ \E first \in Effs, rest \in Effs :
          /\ scores = Filled(first, rest)
          /\ allScores = [key \in {Key(1, difficulty)} |-> scores]
          /\ statistics = [currentStreak |-> 1, bestStreak |-> 1,
                           lastCompletedDate |-> 1]

StoreNext ==
  \E date \in Dates, efficiency \in Effs : SaveScore(date, efficiency)

StoreSpec == StoreInit /\ [][StoreNext]_vars

TypeOK ==
  /\ puzzleData \in {NoPuzzle} \cup {Puzzle(n) : n \in 1..MaxHouses}
  /\ Len(route) <= MaxLen
  /\ visitedHouses \subseteq 1..MaxHouses
  /\ gameComplete \in BOOLEAN
  /\ attempts \in 0..MaxScores
  /\ queued \in 0..MaxQueued
  /\ Len(scores) <= MaxScores
  /\ Len(pending.route) >= Len(route) \/ queued = 0
  /\ trail.mode \in {"visit", "undo", "off"}
  /\ trail.n \in 0..MaxLen

\* ================================================================ claims
housesOnce(r, p) ==
  /\ uniqueHouseIds(r) = p.houses
  /\ Len(houseIdsInRoute(r)) = Cardinality(p.houses)

\* C1: in every state where gameComplete is true (of a loaded puzzle), the
\* first and the last route elements are the depot and the house ids in the
\* route are exactly the puzzle's house ids, each once.
C1_CompletionInvariant ==
  (gameComplete /\ puzzleData.loaded) =>
     /\ Len(route) >= 2
     /\ route[1] = NorthPole
     /\ Last(route) = NorthPole
     /\ housesOnce(route, puzzleData)

C1_Witness ==
  gameComplete /\ puzzleData.loaded /\ Len(route) = 4 /\ Len(scores) = 1

\* C2: after every completed intent (nothing queued), the visited set is
\* exactly the set of house ids that occur in the route.
C2_VisitedMatchesRoute ==
  queued = 0 => visitedHouses = uniqueHouseIds(route)

\* C3: a non-empty route starts with the depot and holds no house id twice.
C3_RouteWellFormed ==
  Len(route) > 0 =>
     /\ route[1] = NorthPole
     /\ Len(houseIdsInRoute(route)) = Cardinality(uniqueHouseIds(route))

\* C4: while a house of the puzzle is not in the visited set, no step
\* appends the depot to a non-empty route.
C4_NoEarlyClose ==
  [][(/\ puzzleData.loaded
      /\ puzzleData' = puzzleData
      /\ visitedHouses # puzzleData.houses
      /\ Len(pending.route) > 0)
     => /\ pending'.route # Append(pending.route, NorthPole)
        /\ route' # Append(pending.route, NorthPole)]_vars

\* a depot intent with a matching hint is delivered and rejected
C4_Witness ==
  /\ puzzleData.loaded
  /\ visitedHouses # puzzleData.houses
  /\ Len(route) > 1
  /\ pending = Rendered
  /\ handleNodeClick(Rendered, pending, puzzleData, NorthPole, Last(route))
       = pending

\* C5: in an open route whose last element is not the depot and with every
\* house visited, a visit intent on the depot (a tap, or a drag whose hint
\* is the route tail) appends the depot and the game becomes complete.
C5_DepotClosesTour ==
  (/\ puzzleData.loaded
   /\ pending = Rendered
   /\ ~gameComplete
   /\ Len(route) >= 1
   /\ Last(route) # NorthPole
   /\ visitedHouses = puzzleData.houses)
  => \A fromNode \in {NoNode, Last(route)} :
       LET q == handleNodeClick(Rendered, pending, puzzleData, NorthPole,
                                fromNode)
       IN /\ q.route = Append(route, NorthPole)
          /\ renderAll(q, puzzleData).gameComplete

\* C6: while gameComplete is true, no handleNodeClick call makes the route
\* longer.
C6_NoAddWhileComplete ==
  [][(gameComplete /\ pending = Rendered /\ puzzleData' = puzzleData)
     => Len(pending'.route) <= Len(route)]_vars

\* the win effect has queued setGameComplete(true) and the render that
\* shows it has not happened yet
completing == ~gameComplete /\ pending.gameComplete

\* C7: each change of gameComplete from false to true comes with exactly one
\* score record, saved by the effect run that queues the change; no record
\* is saved at any other step, in particular none while gameComplete stays
\* true, and a completion after an undo saves exactly one further record.
C7_OneRecordPerCompletion ==
  [][/\ (~gameComplete /\ gameComplete') => (completing /\ scores' = scores)
     /\ (~completing /\ completing') => Len(scores') = Len(scores) + 1
     /\ scores' # scores => (~completing /\ completing')]_vars

\* completed, undone and completed again: two records
C7_Witness == gameComplete /\ phase = 4 /\ Len(scores) = 2

\* C8: after load, start, complete, undo, complete again (nothing else in
\* between) the attempt counter is 2.
C8_TwoAttempts == (phase = 4 /\ gameComplete) => attempts = 2

tailNodes(r) ==
  {r[i] : i \in {j \in {Len(r) - 1, Len(r)} : j >= 1}}

\* what C10 promises of a tap: the last node is gone, and its id too
lastRemoved(q0, q) ==
  /\ q.route = Front(q0.route)
  /\ q.visitedHouses = IF Last(q0.route).type = "house"
                       THEN q0.visitedHouses \ {Last(q0.route).id}
                       ELSE q0.visitedHouses

\* C10 as stated: on a non-empty route a tap on the last or the
\* second-to-last route node, depot or house, removes exactly the last
\* node and takes its id out of the visited set when it is a house.
C10_TapRetreats ==
  (puzzleData.loaded /\ pending = Rendered /\ Len(route) > 0)
  => \A target \in tailNodes(route) :
       lastRemoved(pending,
                   handleNodeClick(Rendered, pending, puzzleData, target,
                                   NoNode))

\* C10 (amended): on a non-empty route a tap on the depot, when the depot is
\* the last or the second-to-last route node, removes exactly the last node
\* and takes its id out of the visited set when it is a house.
C10_DepotTapRetreats ==
  (puzzleData.loaded /\ Len(route) > 0 /\ NorthPole \in tailNodes(route))
  => lastRemoved(pending,
                 handleNodeClick(Rendered, pending, puzzleData, NorthPole,
                                 NoNode))

\* the depot was second-to-last behind a house and the tap has been applied:
\* only a retreat leaves the lone depot with the attempt still marked started
C10_Witness ==
  /\ puzzleData.loaded /\ pending = Rendered
  /\ route = <<NorthPole>> /\ visitedHouses = {}
  /\ currentAttemptStarted
  /\ trail = Trail("undo", 0)

\* C11: whenever a pop made by a retreat tap or by Undo leaves a route of
\* length 1 or 0, the attempt-started flag is false afterwards.
C11_PopClearsAttemptStarted ==
  (puzzleData.loaded /\ Len(route) > 0) =>
     /\ \A target \in Targets :
          LET q == handleNodeClick(Rendered, pending, puzzleData, target,
                                   NoNode)
          IN (Len(q.route) < Len(pending.route) /\ Len(q.route) <= 1)
             => ~q.currentAttemptStarted
     /\ \A eager \in BOOLEAN :
          LET q == undoLastMove(Rendered, pending, eager)
          IN Len(q.route) <= 1 => ~q.currentAttemptStarted

\* C12: a retreat tap on the depot applied to a just-completed route sets
\* gameComplete to false and leaves the attempt-started flag true whenever
\* the remaining route is longer than 1.
C12_RetreatAfterCompletion ==
  (puzzleData.loaded /\ pending = Rendered /\ gameComplete
   /\ Last(route) = NorthPole)
  => LET q == handleNodeClick(Rendered, pending, puzzleData, NorthPole,
                              NoNode)
     IN /\ ~q.gameComplete
        /\ Len(q.route) > 1 => q.currentAttemptStarted

\* C13: Undo on a non-empty route removes exactly the last node whatever its
\* type, takes its id out of the visited set when it is a house, and leaves
\* gameComplete and showReminder false; Undo on an empty route changes
\* nothing.
C13_UndoPopsOne ==
  \A eager \in BOOLEAN :
     LET q == undoLastMove(Rendered, pending, eager)
     IN IF Len(route) = 0 THEN q = pending
        ELSE /\ Len(pending.route) > 0
             /\ lastRemoved(pending, q)
             /\ ~q.gameComplete
             /\ ~q.showReminder

\* an Undo has reopened a completed route of two houses
C13_Witness ==
  /\ phase = 3 /\ pending = Rendered
  /\ route = <<NorthPole, House(1), House(2)>>
  /\ visitedHouses = {1, 2} /\ ~gameComplete /\ ~showReminder

\* C14: Reset empties the route and the visited set and clears gameComplete
\* and attempt-started; the attempt counter is left as it was and the
\* effects that run after it change nothing.
C14_ResetFrame ==
  LET q == resetRoute(pending)
  IN /\ q.route = <<>>
     /\ q.visitedHouses = {}
     /\ ~q.gameComplete
     /\ ~q.currentAttemptStarted
     /\ q.attempts = pending.attempts
     /\ renderAll(q, puzzleData) = q

\* a Reset after a counted completion: the counter is kept
C14_Witness ==
  /\ puzzleData.loaded /\ pending = Rendered
  /\ route = <<>> /\ visitedHouses = {} /\ ~gameComplete
  /\ attempts = 1 /\ trail = Trail("visit", 0)

\* C15: a visit intent on a house of the visited set, as a tap or with any
\* fromNode hint, changes neither the route length nor the size of the
\* visited set.
C15_VisitedHouseNoOp ==
  puzzleData.loaded =>
    \A id \in visitedHouses :
      \A fromNode \in Nodes(puzzleData) \cup {NoNode} :
        LET q == handleNodeClick(Rendered, pending, puzzleData, House(id),
                                 fromNode)
        IN /\ Len(q.route) = Len(pending.route)
           /\ Cardinality(q.visitedHouses)
                = Cardinality(pending.visitedHouses)

\* both houses are in the route and a drag onto the tail house is delivered
C15_Witness ==
  /\ puzzleData.loaded /\ pending = Rendered
  /\ route = <<NorthPole, House(1), House(2)>>
  /\ handleNodeClick(Rendered, pending, puzzleData, House(1), House(2))
       = pending

\* C16: on an empty route a visit intent on a house t gives exactly the
\* route [depot, t] with visited = {t} and attempt-started true, and a visit
\* intent on the depot leaves the route empty.
C16_OpeningVisit ==
  (puzzleData.loaded /\ pending = Rendered /\ Len(route) = 0) =>
    \A fromNode \in Nodes(puzzleData) \cup {NoNode} :
      /\ \A id \in puzzleData.houses :
           LET q == handleNodeClick(Rendered, pending, puzzleData, House(id),
                                    fromNode)
           IN /\ q.route = <<NorthPole, House(id)>>
              /\ q.visitedHouses = {id}
              /\ q.currentAttemptStarted
      /\ handleNodeClick(Rendered, pending, puzzleData, NorthPole,
                         fromNode).route = <<>>

\* C17: a visit intent whose fromNode hint differs from the last route
\* element is rejected in full: no state cell gets a new value.
C17_StaleHintRejected ==
  (puzzleData.loaded /\ Len(route) > 0) =>
    \A target \in Targets :
      \A fromNode \in Nodes(puzzleData) \ {Last(route)} :
        handleNodeClick(Rendered, pending, puzzleData, target, fromNode)
          = pending

\* a tap on house 2 would be accepted here; the same target with the depot
\* as hint is delivered and rejected
C17_Witness ==
  /\ puzzleData.loaded /\ pending = Rendered
  /\ route = <<NorthPole, House(1)>>
  /\ House(2) \in Nodes(puzzleData)
  /\ handleNodeClick(Rendered, pending, puzzleData, House(2), NoNode)
       # pending
  /\ handleNodeClick(Rendered, pending, puzzleData, House(2), NorthPole)
       = pending

\* C18: in no reachable state does the route start and end with the depot
\* with the visited count full while the house ids of the route hold a
\* duplicate or miss a house.
C18_ValidationNeverFails ==
  winShape(Rendered, puzzleData) => winValid(Rendered, puzzleData)

\* C19: every saved record has an efficiency above 0 and at most 100.00%,
\* and exactly 100.00% when the route's distance is at most the puzzle's
\* optimal distance.
C19_EfficiencyRange ==
  \A i \in 1..Len(scores) :
     /\ scores[i].efficiency > 0
     /\ scores[i].efficiency <= FullEfficiency
     /\ scores[i].distance <= layout.optimal_distance
          => scores[i].efficiency = FullEfficiency

\* a route exactly as long as the stored optimum has been scored: the
\* record comes from the branch that computes the ratio
C19_Witness ==
  /\ gameComplete /\ Len(scores) = 1
  /\ scores[1].distance = layout.optimal_distance
  /\ scores[1].optimalDistance = layout.optimal_distance
  /\ scores[1].efficiency = FullEfficiency

\* C20: a record of a route strictly shorter than the stored optimum has the
\* route's distance as optimalDistance and efficiency 100.00%; every other
\* record carries the stored optimum.  The stored optimum itself is written
\* by no step.
C20_RecordOptimum ==
  \A i \in 1..Len(scores) :
     IF scores[i].distance < layout.optimal_distance
     THEN /\ scores[i].optimalDistance = scores[i].distance
          /\ scores[i].efficiency = FullEfficiency
     ELSE scores[i].optimalDistance = layout.optimal_distance

\* a route shorter than the stored optimum has been scored
C20_Witness ==
  /\ gameComplete /\ Len(scores) = 1
  /\ scores[1].distance < layout.optimal_distance
  /\ scores[1].optimalDistance < layout.optimal_distance

solutionDropped == showingSolution /\ ~showingSolution'

\* a load completed in this step: it replaced the puzzle or hid the solution
loadStep == phase' = 0 /\ (puzzleData' # puzzleData \/ solutionDropped)

\* Reset was pressed while a solution was on show
resetStep == phase' = 9 /\ trail' = Trail("visit", 0) /\ solutionDropped

\* C22: after a puzzle switch, a difficulty switch (the load it starts) or
\* Reset no reminder timer and no playback timer armed before is pending, so
\* none can fire for the replaced state.
C22_NoTimerSurvives ==
  [][(loadStep \/ resetStep) =>
       (solutionTimers' = <<>> /\ ~reminderTimeout')]_vars

\* C23: the reminder flag is true only in states where every house is
\* visited, the route is longer than 1, its last node is not the depot and
\* gameComplete is false; a change of route, visited set, completion flag or
\* puzzle cancels the pending check, so the timer is armed only in such
\* states too.
C23_ReminderOnlyWhenDue ==
  /\ showReminder => reminderDue(Rendered, puzzleData)
  /\ reminderTimeout => reminderDue(Rendered, puzzleData)

\* C24: the moves of one drag compose: each is evaluated against the route
\* and the visited set the one before it produced, so that what the queued
\* moves produce holds no house twice and its visited set is the set of the
\* house ids of its route.
C24_MovesCompose ==
  /\ Len(houseIdsInRoute(pending.route)) =
       Cardinality(uniqueHouseIds(pending.route))
  /\ pending.visitedHouses = uniqueHouseIds(pending.route)

\* the index of the final element of the solution on show (0 when none is)
finalIndex ==
  IF Len(solutionRoute.route) > 0 THEN Len(solutionRoute.route) - 1 ELSE 0

\* C25: the playback index starts at 0 when the solution is shown, a step
\* that changes it sets it to 0 or adds exactly 1, it stays between 0 and
\* the index of the final element of the solution route, and once it is at
\* the final index of the solution on show no timer is left armed.
C25_IndexStepsToFinal ==
  [][/\ (~showingSolution /\ showingSolution') => solutionAnimationIndex' = 0
     /\ solutionAnimationIndex' # solutionAnimationIndex =>
          solutionAnimationIndex' \in {0, solutionAnimationIndex + 1}
     /\ solutionAnimationIndex' \in 0..finalIndex'
     /\ (showingSolution' /\ solutionAnimationIndex' = finalIndex') =>
          solutionTimers' = <<>>]_vars

\* a timer of the playback fired: the index went up, or stayed at the final
\* index while the fired timer went away
tickStep ==
  \/ solutionAnimationIndex' > solutionAnimationIndex
  \/ /\ solutionAnimationIndex' = solutionAnimationIndex
     /\ solutionAnimationIndex > 0
     /\ solutionTimers' # solutionTimers

\* a visit, a retreat or an undo was applied (a load and a reset start the
\* visit counter again)
intentStep ==
  /\ trail' # Trail("visit", 0)
  /\ pending' # pending \/ route' # route

\* C26: a tick of the playback changes none of the route, the visited set,
\* gameComplete, the attempt counter and the attempt-started flag, and a
\* visit, a retreat or an undo changes none of showingSolution,
\* solutionRoute and the playback index.
C26_PlaybackAndRouteApart ==
  [][/\ tickStep => UNCHANGED <<route, visitedHouses, gameComplete, attempts,
                                currentAttemptStarted>>
     /\ intentStep => UNCHANGED solutionCellVars]_vars

\* a move was applied and rendered while the playback was past its start
C26_Witness ==
  /\ showingSolution
  /\ solutionAnimationIndex > 0
  /\ Len(route) > 1
  /\ trail.mode = "undo"

touchReleased ==
  /\ canvasVars' # canvasVars
  /\ gesture.down
  /\ gesture'.event = "touchend"
  /\ touchDragStateRef.isDragging
  /\ puzzleData.loaded /\ ~gameComplete

\* C28: when a touch is released and no move came since its press, the
\* release calls onNodeClick exactly if a node lies under the release point,
\* with the coordinates of that node and without a fromNode, whichever node
\* was under the press.
C28_ReleaseWithoutMoveIsTap ==
  [][(touchReleased /\ ~touchDragStateRef.hasMoved) =>
       /\ gesture'.called = (gesture'.node # NoNode)
       /\ gesture'.target = gesture'.node
       /\ gesture'.fromNode = NoNode
       /\ touchDragStateRef' = IdleTouch]_vars

\* a press on house 1 was released, with no move, on house 2
C28_Witness ==
  /\ gesture.event = "touchend"
  /\ gesture.start = House(1)
  /\ gesture.called
  /\ gesture.target = House(2)
  /\ gesture.fromNode = NoNode

\* a move of a drag called onNodeClick
moveCalled ==
  /\ canvasVars' # canvasVars
  /\ gesture.down
  /\ gesture'.event \in {"touchmove", "mousemove"}
  /\ gesture'.called

\* C29: a move of a drag that calls onNodeClick is over a node that is not
\* the last-visited cursor, not the tail of the route and not a visited
\* house; the call passes the coordinates of that node and the tail of the
\* route as fromNode, and the node becomes the cursor.
C29_MoveVisitsOnce ==
  [][moveCalled =>
       /\ gesture'.node # NoNode
       /\ gesture'.target = gesture'.node
       /\ gesture'.node # lastVisitedNodeRef
       /\ gesture'.node # routeTail
       /\ ~isVisitedHouse(gesture'.node)
       /\ gesture'.fromNode = routeTail
       /\ lastVisitedNodeRef' = gesture'.node]_vars

\* a drag pressed on the tail of a route has moved onto a house and called
\* onNodeClick with the tail as fromNode
C29_Witness ==
  /\ gesture.event = "touchmove"
  /\ gesture.called
  /\ gesture.target.type = "house"
  /\ gesture.fromNode = routeTail
  /\ gesture.start = routeTail
  /\ Len(route) > 1
  /\ lastVisitedNodeRef = gesture.target

\* C30: when a touch pressed on a node A is released, after at least one
\* move, on another node B, the release calls onNodeClick with the
\* coordinates of B and with A as fromNode.
C30_ReleaseAfterMoveVisits ==
  [][(/\ touchReleased
      /\ touchDragStateRef.hasMoved
      /\ touchDragStateRef.dragStartNode # NoNode
      /\ gesture'.node # NoNode
      /\ gesture'.node # touchDragStateRef.dragStartNode) =>
       /\ gesture'.called
       /\ gesture'.target = gesture'.node
       /\ gesture'.fromNode = touchDragStateRef.dragStartNode]_vars

\* C31: while gameComplete is true no event of the canvas (press, move,
\* release or click, by touch or by mouse) calls onNodeClick.
C31_NoIntentWhenComplete ==
  [][(gameComplete /\ canvasVars' # canvasVars) => ~gesture'.called]_vars

\* the game was completed in the middle of a touch, and a move over the
\* depot, away from the cursor, called nothing
C31_Witness ==
  /\ gameComplete
  /\ touchDragStateRef.isDragging
  /\ touchDragStateRef.hasMoved
  /\ gesture.event = "touchmove"
  /\ gesture.node = NorthPole
  /\ lastVisitedNodeRef # NorthPole
  /\ ~gesture.called

\* C32: saving a record removes and alters no record saved before: what
\* the store holds for a puzzle before a save is the beginning of what it
\* holds after.
C32_RecordsAppendOnly ==
  [][\A key \in DOMAIN allScores :
       /\ key \in DOMAIN allScores'
       /\ Len(allScores'[key]) >= Len(allScores[key])
       /\ SubSeq(allScores'[key], 1, Len(allScores[key])) = allScores[key]
    ]_vars

\* every record handed to saveScore for the puzzle "key"
everSaved(key) ==
  {scores[i] : i \in {j \in 1..Len(scores) :
                        Key(scores[j].date, scores[j].difficulty) = key}}

\* C33: getBestScore returns null exactly when no record was ever saved for
\* the puzzle, and otherwise a record saved for it whose efficiency is the
\* highest of all records ever saved for it.
C33_BestOfAllSaved ==
  \A date \in Dates :
    LET key == Key(date, difficulty)
        best == getBestScore(allScores, key)
    IN /\ best = NoRecord <=> everSaved(key) = {}
       /\ best # NoRecord =>
            /\ best \in everSaved(key)
            /\ \A rec \in everSaved(key) : rec.efficiency <= best.efficiency

\* C40: on each saved score the current streak goes up by exactly 1 when
\* the date of the puzzle is one day after lastCompletedDate, becomes 1 when
\* it is more than one day after, and stays, as lastCompletedDate does, when
\* the date is the same or earlier; bestStreak is never below currentStreak.
C40_StreakFollowsDates ==
  [][scores' # scores =>
       LET date == scores'[Len(scores')].date
           last == statistics.lastCompletedDate
       IN /\ (last # NoDate /\ date = last + 1) =>
               /\ statistics'.currentStreak = statistics.currentStreak + 1
               /\ statistics'.lastCompletedDate = date
          /\ (last # NoDate /\ date > last + 1) =>
               /\ statistics'.currentStreak = 1
               /\ statistics'.lastCompletedDate = date
          /\ (last # NoDate /\ date <= last) =>
               /\ statistics'.currentStreak = statistics.currentStreak
               /\ statistics'.lastCompletedDate = last
          /\ statistics'.bestStreak >= statistics'.currentStreak]_vars

\* a streak of two days was followed by a completion after a gap
C40_Witness ==
  /\ statistics.currentStreak = 1
  /\ statistics.bestStreak = 2
  /\ statistics.lastCompletedDate = MaxDay
  /\ Len(scores) = 3

\* the ids of the nodes within the radius of the point of the last hit test
hitWithin ==
  {i \in 0..MaxHouses : distTo(hit.at, hit.x, i) < hit.clickRadius}

\* C34: a hit test returns no node exactly when no node lies within the
\* radius of the point, and otherwise a node within the radius than which
\* none is nearer to the point.
C34_HitIsNearest ==
  hit.tested =>
    /\ hit.found = NoNode <=> hitWithin = {}
    /\ hit.found # NoNode =>
         \E i \in hitWithin :
           /\ hit.found = nodeOf(i)
           /\ \A j \in hitWithin :
                distTo(hit.at, hit.x, i) <= distTo(hit.at, hit.x, j)

\* C35: once every load in flight has resolved, in whatever order, the
\* active puzzle is the one loaded for the latest selection.
C35_LatestSelectionWins ==
  (loads = <<>> /\ puzzleData.loaded) => activeFor = difficulty

\* C39: every record handed to saveScore carries the difficulty of the
\* puzzle on which the route was completed, also when the selection was
\* changed while that puzzle was still the active one.
C39_RecordUnderOwnPuzzle ==
  [][Len(scores') > Len(scores) =>
       scores'[Len(scores')].difficulty = activeFor]_vars

\* C37: the solution is on show only while solutionRoute is the solution
\* of the active puzzle: a fetch that resolves after the puzzle was
\* replaced is not shown.
C37_ShownSolutionIsCurrent ==
  showingSolution => /\ puzzleData.loaded
                     /\ solutionRoute = solutionOf(puzzleData)

\* C38: at most one animate timer is armed at any time, and none is armed
\* when the playback has been toggled off.
C38_OnePlaybackTimer ==
  /\ Len(solutionTimers) <= 1
  /\ (~showingSolution /\ solutionFetches = <<>>) => solutionTimers = <<>>


\* C36: a tap or a click -- one press and one release with no move between
\* them -- leaves the route at most one node longer or shorter than it was
\* when the pointer was pressed.
tapEnded ==
  /\ canvasVars' # canvasVars
  /\ gesture'.event \in {"touchend", "click"}
  /\ gesture'.still

C36_TapChangesOneNode ==
  [][tapEnded => /\ Len(route') <= gesture'.before + 1
                 /\ gesture'.before <= Len(route') + 1]_vars

====
